---- MODULE Spec2Model ----
(***************************************************************************)
(* A model of _workbench/scripts/bbc_english_fixer.py: the line rewriter   *)
(* fix_line with its rule table and code heuristics, the file driver       *)
(* process_file and the batch driver main.                                 *)
(*                                                                         *)
(* Text is modelled character by character: a Python str is a sequence of  *)
(* one-character strings, and every regular expression of the source is an *)
(* operator over such sequences that matches what the expression matches.  *)
(***************************************************************************)
EXTENDS Integers, Sequences, FiniteSets, TLC

----------------------------------------------------------------------------
(* Character classes of Python's re module, restricted to ASCII.           *)

\* \w : letters, digits and the underscore
WordChars ==
  {"a","b","c","d","e","f","g","h","i","j","k","l","m","n","o","p","q","r",
   "s","t","u","v","w","x","y","z",
   "A","B","C","D","E","F","G","H","I","J","K","L","M","N","O","P","Q","R",
   "S","T","U","V","W","X","Y","Z",
   "0","1","2","3","4","5","6","7","8","9","_"}

\* \s : white space
SpaceChars ==
  {" ", "\t", "\n", "\r", "\f"}

\* the position of the first character at or after i that is not in S
\* (Len(s)+1 when there is none): what a greedy S* consumes from i
RECURSIVE SkipWhile(_, _, _)
SkipWhile(s, i, S) ==
  IF i <= Len(s) /\ s[i] \in S THEN SkipWhile(s, i + 1, S) ELSE i

\* s holds the characters of w from position i on
HasAt(s, i, w) ==
  /\ i >= 1
  /\ i + Len(w) - 1 <= Len(s)
  /\ \A k \in 1..Len(w) : s[i + k - 1] = w[k]

\* \b before position i: exactly one of s[i-1], s[i] is a word character
WordBoundary(s, i) ==
  LET before == i > 1 /\ i - 1 <= Len(s) /\ s[i - 1] \in WordChars
      after  == i >= 1 /\ i <= Len(s) /\ s[i] \in WordChars
  IN  before # after

\* the first position >= i where w occurs in s, 0 when there is none
RECURSIVE Find(_, _, _)
Find(s, w, i) ==
  IF i + Len(w) - 1 > Len(s) THEN 0
  ELSE IF HasAt(s, i, w) THEN i
  ELSE Find(s, w, i + 1)

----------------------------------------------------------------------------
(* The rule table.  Every pattern of the source is \b<word>\b, one of them *)
(* followed by the negative lookahead (?!\s*=).                            *)

Rule(american, british, description) ==
  [american |-> american, british |-> british, description |-> description,
   not_before_assign |-> FALSE]

RuleNotBeforeAssign(american, british, description) ==
  [american |-> american, british |-> british, description |-> description,
   not_before_assign |-> TRUE]

CONVERSION_RULES ==
  <<
    Rule(<<"a","u","t","h","o","r","i","z","a","t","i","o","n">>,
         <<"a","u","t","h","o","r","i","s","a","t","i","o","n">>, "-ize to -ise"),
    Rule(<<"A","u","t","h","o","r","i","z","a","t","i","o","n">>,
         <<"A","u","t","h","o","r","i","s","a","t","i","o","n">>, "-ize to -ise"),
    Rule(<<"u","n","a","u","t","h","o","r","i","z","e","d">>,
         <<"u","n","a","u","t","h","o","r","i","s","e","d">>, "-ize to -ise"),
    Rule(<<"U","n","a","u","t","h","o","r","i","z","e","d">>,
         <<"U","n","a","u","t","h","o","r","i","s","e","d">>, "-ize to -ise"),
    Rule(<<"o","r","g","a","n","i","z","a","t","i","o","n">>,
         <<"o","r","g","a","n","i","s","a","t","i","o","n">>, "-ize to -ise"),
    Rule(<<"O","r","g","a","n","i","z","a","t","i","o","n">>,
         <<"O","r","g","a","n","i","s","a","t","i","o","n">>, "-ize to -ise"),
    Rule(<<"o","p","t","i","m","i","z","a","t","i","o","n">>,
         <<"o","p","t","i","m","i","s","a","t","i","o","n">>, "-ize to -ise"),
    Rule(<<"O","p","t","i","m","i","z","a","t","i","o","n">>,
         <<"O","p","t","i","m","i","s","a","t","i","o","n">>, "-ize to -ise"),
    Rule(<<"o","p","t","i","m","i","z","e">>,
         <<"o","p","t","i","m","i","s","e">>, "-ize to -ise"),
    Rule(<<"O","p","t","i","m","i","z","e">>,
         <<"O","p","t","i","m","i","s","e">>, "-ize to -ise"),
    Rule(<<"o","p","t","i","m","i","z","e","d">>,
         <<"o","p","t","i","m","i","s","e","d">>, "-ize to -ise"),
    Rule(<<"O","p","t","i","m","i","z","e","d">>,
         <<"O","p","t","i","m","i","s","e","d">>, "-ize to -ise"),
    Rule(<<"o","p","t","i","m","i","z","i","n","g">>,
         <<"o","p","t","i","m","i","s","i","n","g">>, "-ize to -ise"),
    Rule(<<"O","p","t","i","m","i","z","i","n","g">>,
         <<"O","p","t","i","m","i","s","i","n","g">>, "-ize to -ise"),
    Rule(<<"i","n","i","t","i","a","l","i","z","e">>,
         <<"i","n","i","t","i","a","l","i","s","e">>, "-ize to -ise"),
    Rule(<<"I","n","i","t","i","a","l","i","z","e">>,
         <<"I","n","i","t","i","a","l","i","s","e">>, "-ize to -ise"),
    Rule(<<"i","n","i","t","i","a","l","i","z","e","d">>,
         <<"i","n","i","t","i","a","l","i","s","e","d">>, "-ize to -ise"),
    Rule(<<"I","n","i","t","i","a","l","i","z","e","d">>,
         <<"I","n","i","t","i","a","l","i","s","e","d">>, "-ize to -ise"),
    Rule(<<"i","n","i","t","i","a","l","i","z","a","t","i","o","n">>,
         <<"i","n","i","t","i","a","l","i","s","a","t","i","o","n">>, "-ize to -ise"),
    Rule(<<"I","n","i","t","i","a","l","i","z","a","t","i","o","n">>,
         <<"I","n","i","t","i","a","l","i","s","a","t","i","o","n">>, "-ize to -ise"),
    Rule(<<"c","e","n","t","r","a","l","i","z","e">>,
         <<"c","e","n","t","r","a","l","i","s","e">>, "-ize to -ise"),
    Rule(<<"C","e","n","t","r","a","l","i","z","e">>,
         <<"C","e","n","t","r","a","l","i","s","e">>, "-ize to -ise"),
    Rule(<<"r","e","c","o","g","n","i","z","e">>,
         <<"r","e","c","o","g","n","i","s","e">>, "-ize to -ise"),
    Rule(<<"R","e","c","o","g","n","i","z","e">>,
         <<"R","e","c","o","g","n","i","s","e">>, "-ize to -ise"),
    Rule(<<"a","n","a","l","y","z","e">>,
         <<"a","n","a","l","y","s","e">>, "-yze to -yse"),
    Rule(<<"A","n","a","l","y","z","e">>,
         <<"A","n","a","l","y","s","e">>, "-yze to -yse"),
    Rule(<<"a","n","a","l","y","z","e","d">>,
         <<"a","n","a","l","y","s","e","d">>, "-yze to -yse"),
    Rule(<<"A","n","a","l","y","z","e","d">>,
         <<"A","n","a","l","y","s","e","d">>, "-yze to -yse"),
    Rule(<<"a","n","a","l","y","z","i","n","g">>,
         <<"a","n","a","l","y","s","i","n","g">>, "-yze to -yse"),
    Rule(<<"A","n","a","l","y","z","i","n","g">>,
         <<"A","n","a","l","y","s","i","n","g">>, "-yze to -yse"),
    Rule(<<"c","o","l","o","r">>,
         <<"c","o","l","o","u","r">>, "-or to -our"),
    Rule(<<"C","o","l","o","r">>,
         <<"C","o","l","o","u","r">>, "-or to -our"),
    Rule(<<"h","o","n","o","r">>,
         <<"h","o","n","o","u","r">>, "-or to -our"),
    Rule(<<"H","o","n","o","r">>,
         <<"H","o","n","o","u","r">>, "-or to -our"),
    Rule(<<"b","e","h","a","v","i","o","r">>,
         <<"b","e","h","a","v","i","o","u","r">>, "-or to -our"),
    Rule(<<"B","e","h","a","v","i","o","r">>,
         <<"B","e","h","a","v","i","o","u","r">>, "-or to -our"),
    Rule(<<"f","a","v","o","r">>,
         <<"f","a","v","o","u","r">>, "-or to -our"),
    Rule(<<"F","a","v","o","r">>,
         <<"F","a","v","o","u","r">>, "-or to -our"),
    Rule(<<"c","e","n","t","e","r">>,
         <<"c","e","n","t","r","e">>, "-er to -re"),
    Rule(<<"C","e","n","t","e","r">>,
         <<"C","e","n","t","r","e">>, "-er to -re"),
    Rule(<<"m","e","t","e","r">>,
         <<"m","e","t","r","e">>, "-er to -re"),
    Rule(<<"M","e","t","e","r">>,
         <<"M","e","t","r","e">>, "-er to -re"),
    Rule(<<"d","e","f","e","n","s","e">>,
         <<"d","e","f","e","n","c","e">>, "-ense to -ence"),
    Rule(<<"D","e","f","e","n","s","e">>,
         <<"D","e","f","e","n","c","e">>, "-ense to -ence"),
    Rule(<<"o","f","f","e","n","s","e">>,
         <<"o","f","f","e","n","c","e">>, "-ense to -ence"),
    Rule(<<"O","f","f","e","n","s","e">>,
         <<"O","f","f","e","n","c","e">>, "-ense to -ence"),
    RuleNotBeforeAssign(<<"l","i","c","e","n","s","e">>,
         <<"l","i","c","e","n","c","e">>, "-ense to -ence (not in \"license = \" cargo)"),
    Rule(<<"L","i","c","e","n","s","e">>,
         <<"L","i","c","e","n","c","e">>, "-ense to -ence"),
    Rule(<<"d","i","a","l","o","g">>,
         <<"d","i","a","l","o","g","u","e">>, "-og to -ogue"),
    Rule(<<"D","i","a","l","o","g">>,
         <<"D","i","a","l","o","g","u","e">>, "-og to -ogue"),
    Rule(<<"c","a","t","a","l","o","g">>,
         <<"c","a","t","a","l","o","g","u","e">>, "-og to -ogue"),
    Rule(<<"C","a","t","a","l","o","g">>,
         <<"C","a","t","a","l","o","g","u","e">>, "-og to -ogue"),
    Rule(<<"t","r","a","v","e","l","e","d">>,
         <<"t","r","a","v","e","l","l","e","d">>, "single to double L"),
    Rule(<<"T","r","a","v","e","l","e","d">>,
         <<"T","r","a","v","e","l","l","e","d">>, "single to double L"),
    Rule(<<"t","r","a","v","e","l","i","n","g">>,
         <<"t","r","a","v","e","l","l","i","n","g">>, "single to double L"),
    Rule(<<"T","r","a","v","e","l","i","n","g">>,
         <<"T","r","a","v","e","l","l","i","n","g">>, "single to double L"),
    Rule(<<"m","o","d","e","l","i","n","g">>,
         <<"m","o","d","e","l","l","i","n","g">>, "single to double L"),
    Rule(<<"M","o","d","e","l","i","n","g">>,
         <<"M","o","d","e","l","l","i","n","g">>, "single to double L"),
    Rule(<<"p","e","d","i","a","t","r","i","c">>,
         <<"p","a","e","d","i","a","t","r","i","c">>, "ae/oe"),
    Rule(<<"P","e","d","i","a","t","r","i","c">>,
         <<"P","a","e","d","i","a","t","r","i","c">>, "ae/oe"),
    Rule(<<"m","a","n","e","u","v","e","r">>,
         <<"m","a","n","o","e","u","v","r","e">>, "ae/oe"),
    Rule(<<"M","a","n","e","u","v","e","r">>,
         <<"M","a","n","o","e","u","v","r","e">>, "ae/oe")
  >>

----------------------------------------------------------------------------
(* re.search and re.sub for one rule.                                      *)

\* the rule's pattern matches s at position i, with the trailing \b dropped
MatchAtNoTrailingBoundary(rule, s, i) ==
  /\ HasAt(s, i, rule.american)
  /\ WordBoundary(s, i)
  /\ rule.not_before_assign =>
       LET m == SkipWhile(s, i + Len(rule.american), SpaceChars)
       IN  ~(m <= Len(s) /\ s[m] = "=")

\* the rule's pattern \b<american>\b[(?!\s*=)] matches s at position i
MatchAt(rule, s, i) ==
  /\ i + Len(rule.american) - 1 <= Len(s)
  /\ s[i] = rule.american[1]
  /\ WordBoundary(s, i)
  /\ HasAt(s, i, rule.american)
  /\ WordBoundary(s, i + Len(rule.american))
  /\ rule.not_before_assign =>
       LET m == SkipWhile(s, i + Len(rule.american), SpaceChars)
       IN  ~(m <= Len(s) /\ s[m] = "=")

\* the position of the leftmost match of the rule at or after i, 0 when none
RECURSIVE MatchFrom(_, _, _)
MatchFrom(rule, s, i) ==
  IF i > Len(s) THEN 0
  ELSE IF MatchAt(rule, s, i) THEN i
  ELSE MatchFrom(rule, s, i + 1)

\* re.search(american, s) is not None
re_search(rule, s) ==
  MatchFrom(rule, s, 1) # 0

\* re.search(american, s).group(): the text of the leftmost match
re_search_group(rule, s) ==
  LET i == MatchFrom(rule, s, 1)
  IN  SubSeq(s, i, i + Len(rule.american) - 1)

\* s from position i on, with only the leftmost match replaced
re_sub_first(rule, s) ==
  LET i == MatchFrom(rule, s, 1)
  IN  IF i = 0 THEN s
      ELSE SubSeq(s, 1, i - 1) \o rule.british
             \o SubSeq(s, i + Len(rule.american), Len(s))

\* s from position i on, with every non-overlapping match replaced
RECURSIVE SubFrom(_, _, _)
SubFrom(rule, s, i) ==
  IF i > Len(s) THEN <<>>
  ELSE IF MatchAt(rule, s, i)
       THEN rule.british \o SubFrom(rule, s, i + Len(rule.american))
       ELSE <<s[i]>> \o SubFrom(rule, s, i + 1)

\* re.sub(american, british, s)
re_sub(rule, s) ==
  SubFrom(rule, s, 1)

\* the number of non-overlapping matches of the rule in s from position i on
RECURSIVE CountFrom(_, _, _)
CountFrom(rule, s, i) ==
  IF i > Len(s) THEN 0
  ELSE IF MatchAt(rule, s, i)
       THEN 1 + CountFrom(rule, s, i + Len(rule.american))
       ELSE CountFrom(rule, s, i + 1)

----------------------------------------------------------------------------
(* COMMENT_PATTERNS: re.match of the one pattern, a prefix group (leading   *)
(* white space, //, an optional / or !, white space) and a content group   *)
(* (the rest of the line).                                                 *)

\* the backquote character, which a TLA+ string cannot hold
BACKQUOTE ==
  "backquote"

\* the fence marker: three backquotes
FENCE ==
  <<BACKQUOTE, BACKQUOTE, BACKQUOTE>>

SLASHES ==
  <<"/", "/">>

\* the fence marker occurs in the line (lines 151 and 186)
HasFence(line) ==
  Find(line, FENCE, 1) # 0

\* the pattern with re.search in place of re.match and no ^ anchor: the
\* marker is looked for anywhere in the line
comment_match_anywhere(line) ==
  LET a == Find(line, SLASHES, 1)
      b == IF a + 2 <= Len(line) /\ line[a + 2] \in {"/", "!"}
           THEN a + 3 ELSE a + 2
      c == SkipWhile(line, b, SpaceChars)
      e == IF c <= Len(line) /\ line[Len(line)] = "\n"
           THEN Len(line) - 1 ELSE Len(line)
  IN  IF a = 0
      THEN [matched |-> FALSE, prefix |-> <<>>, content |-> <<>>]
      ELSE [matched |-> TRUE,
            prefix  |-> SubSeq(line, 1, c - 1),
            content |-> SubSeq(line, c, e)]

\* group 1 (the prefix) and group 2 (the content) of the match, if any.
\* \s* is greedy and "/" is no space, so the prefix is decided without
\* backtracking; the content group takes the rest, up to a final line
\* terminator.
comment_match(line) ==
  LET a == SkipWhile(line, 1, SpaceChars)
      b == IF a + 2 <= Len(line) /\ line[a + 2] \in {"/", "!"}
           THEN a + 3 ELSE a + 2
      c == SkipWhile(line, b, SpaceChars)
      e == IF c <= Len(line) /\ line[Len(line)] = "\n"
           THEN Len(line) - 1 ELSE Len(line)
  IN  IF ~HasAt(line, a, SLASHES)
        \/ \E k \in c..e : line[k] = "\n"
      THEN [matched |-> FALSE, prefix |-> <<>>, content |-> <<>>]
      ELSE [matched |-> TRUE,
            prefix  |-> SubSeq(line, 1, c - 1),
            content |-> SubSeq(line, c, e)]

----------------------------------------------------------------------------
(* is_code_example_line: every pattern is //.* followed by a tail, looked  *)
(* for with re.search; the tail may start anywhere after the leftmost //.  *)

\* \blet\s+\w+\s*=  (kw = let)  and the head of  \bfn\s+\w+\s*\(  (kw = fn)
KeywordThenName(line, i, kw, closer) ==
  /\ HasAt(line, i, kw)
  /\ WordBoundary(line, i)
  /\ LET j == SkipWhile(line, i + Len(kw), SpaceChars)
         k == SkipWhile(line, j, WordChars)
         m == SkipWhile(line, k, SpaceChars)
     IN  /\ j > i + Len(kw)
         /\ k > j
         /\ m <= Len(line)
         /\ line[m] = closer

\* \w+\s*\(
CallAt(line, i) ==
  /\ line[i] \in WordChars
  /\ LET m == SkipWhile(line, SkipWhile(line, i, WordChars), SpaceChars)
     IN  m <= Len(line) /\ line[m] = "("

\* \w+::\w+
PathAt(line, i) ==
  /\ line[i] \in WordChars
  /\ LET j == SkipWhile(line, i, WordChars)
     IN  /\ HasAt(line, j, <<":", ":">>)
         /\ j + 2 <= Len(line)
         /\ line[j + 2] \in WordChars

\* \.\w+\(
MethodAt(line, i) ==
  /\ line[i] = "."
  /\ LET j == SkipWhile(line, i + 1, WordChars)
     IN  j > i + 1 /\ j <= Len(line) /\ line[j] = "("

\* \s*\|\s*\w+\s*\|   (the leading \s* may be empty: i is the first bar)
ClosureAt(line, i) ==
  /\ line[i] = "|"
  /\ LET j == SkipWhile(line, i + 1, SpaceChars)
         k == SkipWhile(line, j, WordChars)
         m == SkipWhile(line, k, SpaceChars)
     IN  k > j /\ m <= Len(line) /\ line[m] = "|"

\* only the fence check of the function, without the code patterns
is_code_example_line_fence_only(line) ==
  HasFence(line)

is_code_example_line(line) ==
  \/ HasFence(line)
  \/ LET p == Find(line, SLASHES, 1)
     IN  /\ p # 0
         /\ \E i \in (p + 2)..Len(line) :
              \/ KeywordThenName(line, i, <<"l", "e", "t">>, "=")
              \/ KeywordThenName(line, i, <<"f", "n">>, "(")
              \/ CallAt(line, i)
              \/ PathAt(line, i)
              \/ MethodAt(line, i)
              \/ ClosureAt(line, i)

----------------------------------------------------------------------------
(* fix_line.                                                               *)

\* a change record: the fields of the f-string appended to changes
Change(filename, line_num, rule, matched) ==
  [filename |-> filename, line_num |-> line_num,
   description |-> rule.description, matched |-> matched,
   british |-> rule.british]

\* one record for every occurrence the rule replaces
changes_per_occurrence(rule, content, original_content, filename, line_num) ==
  [k \in 1..CountFrom(rule, content, 1) |->
     Change(filename, line_num, rule, rule.american)]

\* what one firing of a rule appends to changes: a single record, naming
\* the leftmost match in the ORIGINAL content.  re.search returns None when
\* the original content holds no match and .group() then raises; the
\* matched field of the record is None there.
changes_appended(rule, content, original_content, filename, line_num) ==
  << Change(filename, line_num, rule,
            IF re_search(rule, original_content)
            THEN re_search_group(rule, original_content)
            ELSE <<"None">>) >>

\* the loop over CONVERSION_RULES, from rule k on
RECURSIVE apply_rules(_, _, _, _, _, _)
apply_rules(k, content, original_content, changes, filename, line_num) ==
  IF k > Len(CONVERSION_RULES)
  THEN [content |-> content, changes |-> changes]
  ELSE LET rule == CONVERSION_RULES[k]
       IN  IF re_search(rule, content)
           THEN apply_rules(k + 1, re_sub(rule, content), original_content,
                  changes \o changes_appended(rule, content, original_content,
                                              filename, line_num),
                  filename, line_num)
           ELSE apply_rules(k + 1, content, original_content, changes,
                            filename, line_num)

\* the part of fix_line after the fence and code checks
fix_comment(line, line_num, filename, in_code_block) ==
  LET m == comment_match(line)
      r == apply_rules(1, m.content, m.content, <<>>, filename, line_num)
  IN  IF m.matched /\ r.content # m.content
      THEN [line |-> m.prefix \o r.content \o <<"\n">>,
            changes |-> r.changes, in_code_block |-> in_code_block]
      ELSE [line |-> line,
            changes |-> IF m.matched THEN r.changes ELSE <<>>,
            in_code_block |-> in_code_block]

\* fix_line without the in_code_block test of its second check
fix_line_ignoring_block(line, line_num, filename, dry_run, in_code_block) ==
  IF HasFence(line)
  THEN [line |-> line, changes |-> <<>>, in_code_block |-> ~in_code_block]
  ELSE IF is_code_example_line(line)
  THEN [line |-> line, changes |-> <<>>, in_code_block |-> in_code_block]
  ELSE fix_comment(line, line_num, filename, in_code_block)

fix_line(line, line_num, filename, dry_run, in_code_block) ==
  IF HasFence(line)
  THEN [line |-> line, changes |-> <<>>, in_code_block |-> ~in_code_block]
  ELSE IF in_code_block \/ is_code_example_line(line)
  THEN [line |-> line, changes |-> <<>>, in_code_block |-> in_code_block]
  ELSE fix_comment(line, line_num, filename, in_code_block)

----------------------------------------------------------------------------
(* process_file's write-back test (line 244).                              *)

\* the test without "not dry_run"
should_write_ignoring_dry_run(dry_run, all_changes) ==
  all_changes # <<>>

should_write(dry_run, all_changes) ==
  ~dry_run /\ all_changes # <<>>

----------------------------------------------------------------------------
(* Bounds and inputs.                                                      *)

\* the most files the directory holds
MaxFiles == 2

\* the most runs of the tool over the same single file
MaxRuns == 2

\* the most lines a file holds
MaxLines == 2

\* the most words of a line given to fix_line on its own
MaxWords == 2

\* // Let's optimize the color centering
LINE_PROSE ==
  <<"/","/"," ","L","e","t","'","s"," ","o","p","t","i","m","i","z","e"," ",
    "t","h","e"," ","c","o","l","o","r"," ","c","e","n","t","e","r","i","n",
    "g","\n">>

\* a doc comment opening a fenced rust example
LINE_FENCE ==
  <<"/","/","/"," ",BACKQUOTE,BACKQUOTE,BACKQUOTE,"r","u","s","t","\n">>

\* code holding two fence markers in a string literal, and a trailing comment
LINE_INLINE ==
  <<"s"," ","="," ","\"",BACKQUOTE,BACKQUOTE,BACKQUOTE," ",BACKQUOTE,
    BACKQUOTE,BACKQUOTE,"\"",";"," ","/","/"," ","c","o","l","o","r","\n">>

\* a line comment
HEAD_LINE ==
  <<"/","/"," ">>

\* an indented doc comment
HEAD_DOC ==
  <<" "," ","/","/","/"," ">>

\* an inner doc comment, no space after the marker
HEAD_INNER ==
  <<"/","/","!">>

\* code with a trailing comment
HEAD_TRAILING ==
  <<"x",";"," ","/","/"," ">>

\* plain code
HEAD_CODE ==
  <<"x"," ">>

\* color
W_COLOR ==
  <<"c","o","l","o","r">>

\* Optimize
W_OPTIMIZE ==
  <<"O","p","t","i","m","i","z","e">>

\* centering
W_CENTERING ==
  <<"c","e","n","t","e","r","i","n","g">>

\* license
W_LICENSE ==
  <<"l","i","c","e","n","s","e">>

\* =
W_ASSIGN ==
  <<"=">>

\* the fence marker
W_FENCE ==
  <<BACKQUOTE,BACKQUOTE,BACKQUOTE>>

\* f(x)
W_CALL ==
  <<"f","(","x",")">>

\* a::b
W_PATH ==
  <<"a",":",":","b">>

\* |x|
W_CLOSURE ==
  <<"|","x","|">>

\* let y
W_LET ==
  <<"l","e","t"," ","y">>

\* the lines the files are made of
FileLines ==
  {LINE_PROSE, LINE_FENCE, LINE_INLINE}

\* what readlines() can return: up to MaxLines lines
FileContents ==
  UNION {[1..n -> FileLines] : n \in 0..MaxLines}

Heads ==
  {HEAD_LINE, HEAD_DOC, HEAD_INNER, HEAD_TRAILING, HEAD_CODE}

Words ==
  {W_COLOR, W_OPTIMIZE, W_CENTERING, W_LICENSE, W_ASSIGN, W_FENCE, W_CALL,
   W_PATH, W_CLOSURE, W_LET}

\* the words of ws, separated by single spaces
RECURSIVE Join(_)
Join(ws) ==
  IF ws = <<>> THEN <<>>
  ELSE IF Len(ws) = 1 THEN ws[1]
  ELSE ws[1] \o <<" ">> \o Join(Tail(ws))

\* a head, up to MaxWords words, and a line terminator (the last line of a
\* file may have none)
LineInputs ==
  {h \o Join(ws) \o eol :
     h \in Heads,
     ws \in UNION {[1..n -> Words] : n \in 0..MaxWords},
     eol \in {<<"\n">>, <<>>}}

----------------------------------------------------------------------------
(* State.                                                                  *)

VARIABLES
  run,                \* which run of the tool over the same path this is
  converted,          \* history: an earlier run applied its changes to the file
  path_kind,          \* what args.path is: "dir", "rs_file", "other_file", "missing"
  dry_run,            \* not args.apply
  rust_files,         \* len(rust_files); the files are 1..rust_files, sorted
  pc,                 \* where main is
  file_idx,           \* the file process_file is called for
  disk,               \* the content on disk of file file_idx
  orig,               \* the content file file_idx had when the run started
  lines,              \* process_file: lines
  new_lines,          \* process_file: new_lines
  all_changes,        \* process_file: all_changes
  in_code_block,      \* process_file: in_code_block
  num_changes,        \* main: num_changes, the count process_file returned
  total_changes,      \* main: total_changes
  files_with_changes, \* main: files_with_changes
  stderr,             \* the messages printed on standard error
  exit_code,          \* the exit status, -1 while the process runs
  detected,           \* history: the changes detected in the files finished so far
  left_in_block,      \* history: in_code_block at the end of the file before
  arg_line,           \* fix_line on its own: the line
  arg_block,          \* fix_line on its own: in_code_block
  stage,              \* fix_line on its own: how often it has been applied
  once,               \* fix_line(arg_line, ...)
  twice               \* fix_line(once.line, ...)

main_vars ==
  <<run, converted, path_kind, dry_run, rust_files, pc, file_idx, disk, orig, lines,
    new_lines, all_changes, in_code_block, num_changes, total_changes,
    files_with_changes, stderr, exit_code, detected, left_in_block>>

line_vars ==
  <<arg_line, arg_block, stage, once, twice>>

vars ==
  <<run, converted, path_kind, dry_run, rust_files, pc, file_idx, disk, orig, lines,
    new_lines, all_changes, in_code_block, num_changes, total_changes,
    files_with_changes, stderr, exit_code, detected, left_in_block,
    arg_line, arg_block, stage, once, twice>>

NoResult ==
  [line |-> <<>>, changes |-> <<>>, in_code_block |-> FALSE]

MainIdle ==
  /\ run = 0
  /\ converted = FALSE
  /\ path_kind = "dir"
  /\ dry_run = TRUE
  /\ rust_files = 0
  /\ pc = "idle"
  /\ file_idx = 0
  /\ disk = <<>>
  /\ orig = <<>>
  /\ lines = <<>>
  /\ new_lines = <<>>
  /\ all_changes = <<>>
  /\ in_code_block = FALSE
  /\ num_changes = 0
  /\ total_changes = 0
  /\ files_with_changes = 0
  /\ stderr = <<>>
  /\ exit_code = -1
  /\ detected = 0
  /\ left_in_block = FALSE

LineIdle ==
  /\ arg_line = <<>>
  /\ arg_block = FALSE
  /\ stage = "idle"
  /\ once = NoResult
  /\ twice = NoResult

----------------------------------------------------------------------------
(* main and process_file.                                                  *)

\* the variables one run of main leaves alone once it has started
invocation ==
  <<run, converted, path_kind, dry_run>>

\* the command line: a path and --apply or not
Init ==
  /\ run = 1
  /\ converted = FALSE
  /\ path_kind \in {"dir", "rs_file", "other_file", "missing"}
  /\ dry_run \in BOOLEAN
  /\ rust_files = 0
  /\ pc = "main"
  /\ file_idx = 0
  /\ disk = <<>>
  /\ orig = <<>>
  /\ lines = <<>>
  /\ new_lines = <<>>
  /\ all_changes = <<>>
  /\ in_code_block = FALSE
  /\ num_changes = 0
  /\ total_changes = 0
  /\ files_with_changes = 0
  /\ stderr = <<>>
  /\ exit_code = -1
  /\ detected = 0
  /\ left_in_block = FALSE
  /\ LineIdle

\* main, lines 286-299: collect the .rs files, or exit 1 on a path that is
\* neither a file nor a directory
Collect ==
  /\ pc = "main"
  /\ \/ /\ path_kind = "missing"
        /\ stderr' = Append(stderr, [error |-> "not a file or directory",
                                     file |-> 0])
        /\ exit_code' = 1
        /\ pc' = "exit"
        /\ UNCHANGED rust_files
     \/ /\ path_kind # "missing"
        /\ rust_files' \in CASE path_kind = "rs_file" -> {1}
                             [] path_kind = "other_file" -> {0}
                             [] OTHER -> 0..MaxFiles
        /\ pc' = "loop"
        /\ UNCHANGED <<stderr, exit_code>>
  /\ UNCHANGED <<file_idx, disk, orig, lines, new_lines, all_changes,
                 in_code_block, num_changes, total_changes,
                 files_with_changes, detected, left_in_block>>
  /\ UNCHANGED invocation
  /\ UNCHANGED line_vars

\* what the next file holds: any content in the first run, and in a later
\* run over the same single file what the run before left on disk
ContentOnDisk ==
  IF run = 1 THEN FileContents ELSE {disk}

\* ReadFile without line 234: the fence state of the file before is kept
ReadFileKeepingBlock ==
  /\ pc = "loop"
  /\ file_idx < rust_files
  /\ file_idx' = file_idx + 1
  /\ \E content \in ContentOnDisk :
       /\ disk' = content
       /\ orig' = content
       /\ lines' = content
  /\ new_lines' = <<>>
  /\ all_changes' = <<>>
  /\ pc' = "scan"
  /\ UNCHANGED <<rust_files, in_code_block, num_changes, total_changes,
                 files_with_changes, stderr, exit_code, detected,
                 left_in_block>>
  /\ UNCHANGED invocation
  /\ UNCHANGED line_vars

\* process_file, lines 225-234: the next file is read
ReadFile ==
  /\ pc = "loop"
  /\ file_idx < rust_files
  /\ file_idx' = file_idx + 1
  /\ \E content \in ContentOnDisk :
       /\ disk' = content
       /\ orig' = content
       /\ lines' = content
  /\ new_lines' = <<>>
  /\ all_changes' = <<>>
  /\ in_code_block' = FALSE
  /\ pc' = "scan"
  /\ UNCHANGED <<rust_files, num_changes, total_changes, files_with_changes,
                 stderr, exit_code, detected, left_in_block>>
  /\ UNCHANGED invocation
  /\ UNCHANGED line_vars

\* process_file, lines 225-230: the file cannot be opened or decoded, and
\* process_file returns (0, []) before it has any lines
ReadFails ==
  /\ pc = "loop"
  /\ file_idx < rust_files
  /\ file_idx' = file_idx + 1
  /\ \E content \in ContentOnDisk :
       /\ disk' = content
       /\ orig' = content
  /\ lines' = <<>>
  /\ new_lines' = <<>>
  /\ all_changes' = <<>>
  /\ in_code_block' = FALSE
  /\ stderr' = Append(stderr, [error |-> "reading", file |-> file_idx + 1])
  /\ num_changes' = 0
  /\ pc' = "returned"
  /\ UNCHANGED <<rust_files, total_changes, files_with_changes, exit_code,
                 detected, left_in_block>>
  /\ UNCHANGED invocation
  /\ UNCHANGED line_vars

\* process_file, lines 236-241: one iteration of the loop over the lines
ScanLine ==
  /\ pc = "scan"
  /\ Len(new_lines) < Len(lines)
  /\ \E r \in {fix_line(lines[Len(new_lines) + 1], Len(new_lines) + 1,
                        file_idx, dry_run, in_code_block)} :
       /\ new_lines' = Append(new_lines, r.line)
       /\ all_changes' = all_changes \o r.changes
       /\ in_code_block' = r.in_code_block
  /\ UNCHANGED <<rust_files, pc, file_idx, disk, orig, lines, num_changes,
                 total_changes, files_with_changes, stderr, exit_code,
                 detected, left_in_block>>
  /\ UNCHANGED invocation
  /\ UNCHANGED line_vars

\* process_file, lines 243-252, nothing to write
ReturnUnwritten ==
  /\ pc = "scan"
  /\ Len(new_lines) = Len(lines)
  /\ ~should_write(dry_run, all_changes)
  /\ num_changes' = Len(all_changes)
  /\ pc' = "returned"
  /\ UNCHANGED <<rust_files, file_idx, disk, orig, lines, new_lines,
                 all_changes, in_code_block, total_changes,
                 files_with_changes, stderr, exit_code, detected,
                 left_in_block>>
  /\ UNCHANGED invocation
  /\ UNCHANGED line_vars

\* process_file, lines 244-247 and 252: the file is written
WriteFile ==
  /\ pc = "scan"
  /\ Len(new_lines) = Len(lines)
  /\ should_write(dry_run, all_changes)
  /\ disk' = new_lines
  /\ num_changes' = Len(all_changes)
  /\ pc' = "returned"
  /\ UNCHANGED <<rust_files, file_idx, orig, lines, new_lines, all_changes,
                 in_code_block, total_changes, files_with_changes, stderr,
                 exit_code, detected, left_in_block>>
  /\ UNCHANGED invocation
  /\ UNCHANGED line_vars

\* process_file, lines 246 and 248-250: open(filepath, "w") raises; the
\* file is as it was
WriteFailsOnOpen ==
  /\ pc = "scan"
  /\ Len(new_lines) = Len(lines)
  /\ should_write(dry_run, all_changes)
  /\ stderr' = Append(stderr, [error |-> "writing", file |-> file_idx])
  /\ num_changes' = 0
  /\ pc' = "returned"
  /\ UNCHANGED <<rust_files, file_idx, disk, orig, lines, new_lines,
                 all_changes, in_code_block, total_changes,
                 files_with_changes, exit_code, detected, left_in_block>>
  /\ UNCHANGED invocation
  /\ UNCHANGED line_vars

\* process_file, lines 246-250: open(filepath, "w") has truncated the file
\* and writelines, or the flush on close, raises: some of the new lines,
\* possibly none, are on disk
WriteFailsAfterOpen ==
  /\ pc = "scan"
  /\ Len(new_lines) = Len(lines)
  /\ should_write(dry_run, all_changes)
  /\ \E k \in 0..(Len(new_lines) - 1) : disk' = SubSeq(new_lines, 1, k)
  /\ stderr' = Append(stderr, [error |-> "writing", file |-> file_idx])
  /\ num_changes' = 0
  /\ pc' = "returned"
  /\ UNCHANGED <<rust_files, file_idx, orig, lines, new_lines, all_changes,
                 in_code_block, total_changes, files_with_changes,
                 exit_code, detected, left_in_block>>
  /\ UNCHANGED invocation
  /\ UNCHANGED line_vars

\* main, lines 303-319: the counts of one file and its report, which prints
\* file_idx and num_changes
Report ==
  /\ pc = "returned"
  /\ IF num_changes > 0
     THEN /\ files_with_changes' = files_with_changes + 1
          /\ total_changes' = total_changes + num_changes
     ELSE UNCHANGED <<files_with_changes, total_changes>>
  /\ detected' = detected + Len(all_changes)
  /\ left_in_block' = in_code_block
  /\ pc' = "loop"
  /\ UNCHANGED <<rust_files, file_idx, disk, orig, lines, new_lines,
                 all_changes, in_code_block, num_changes, stderr, exit_code>>
  /\ UNCHANGED invocation
  /\ UNCHANGED line_vars

\* main, lines 321-330: the summary and the exit status
Summary ==
  /\ pc = "loop"
  /\ file_idx = rust_files
  /\ exit_code' = IF total_changes = 0 THEN 0 ELSE 1
  /\ pc' = "exit"
  /\ UNCHANGED <<rust_files, file_idx, disk, orig, lines, new_lines,
                 all_changes, in_code_block, num_changes, total_changes,
                 files_with_changes, stderr, detected, left_in_block>>
  /\ UNCHANGED invocation
  /\ UNCHANGED line_vars

\* the tool is run again on the same single file, in either mode: main
\* starts afresh (lines 275-300) and the file is as the run before left it.
\* converted records that a run in apply mode has gone through the file
\* without a read or write error.
RunAgain ==
  /\ pc = "exit"
  /\ path_kind = "rs_file"
  /\ run < MaxRuns
  /\ run' = run + 1
  /\ converted' = (converted \/ (~dry_run /\ stderr = <<>>))
  /\ dry_run' \in BOOLEAN
  /\ rust_files' = 0
  /\ pc' = "main"
  /\ file_idx' = 0
  /\ lines' = <<>>
  /\ new_lines' = <<>>
  /\ all_changes' = <<>>
  /\ in_code_block' = FALSE
  /\ num_changes' = 0
  /\ total_changes' = 0
  /\ files_with_changes' = 0
  /\ stderr' = <<>>
  /\ exit_code' = -1
  /\ detected' = 0
  /\ left_in_block' = FALSE
  /\ orig' = disk
  /\ UNCHANGED <<path_kind, disk>>
  /\ UNCHANGED line_vars

Next ==
  \/ Collect
  \/ ReadFile
  \/ ReadFails
  \/ ScanLine
  \/ ReturnUnwritten
  \/ WriteFile
  \/ WriteFailsOnOpen
  \/ WriteFailsAfterOpen
  \/ Report
  \/ Summary
  \/ RunAgain

Spec ==
  Init /\ [][Next]_vars

----------------------------------------------------------------------------
(* fix_line on its own: a line and a fence state, fix_line applied to      *)
(* them, and fix_line applied again to the line it returned.               *)

LineInit ==
  /\ MainIdle
  /\ arg_line \in LineInputs
  /\ arg_block \in BOOLEAN
  /\ stage = "input"
  /\ once = NoResult
  /\ twice = NoResult

Apply ==
  /\ stage = "input"
  /\ once' = fix_line(arg_line, 1, 1, TRUE, arg_block)
  /\ stage' = "once"
  /\ UNCHANGED <<arg_line, arg_block, twice>>
  /\ UNCHANGED main_vars

ApplyAgain ==
  /\ stage = "once"
  /\ twice' = fix_line(once.line, 1, 1, TRUE, arg_block)
  /\ stage' = "twice"
  /\ UNCHANGED <<arg_line, arg_block, once>>
  /\ UNCHANGED main_vars

LineNext ==
  \/ Apply
  \/ ApplyAgain

LineSpec ==
  LineInit /\ [][LineNext]_vars

----------------------------------------------------------------------------
(* Both: the tool is run, or fix_line is called on its own.                *)

FullInit ==
  Init \/ LineInit

FullNext ==
  Next \/ LineNext

FullSpec ==
  FullInit /\ [][FullNext]_vars

----------------------------------------------------------------------------
(* Properties of fix_line (LineSpec, FullSpec).                            *)

\* the line begins, after optional white space, with the comment marker //
StartsWithMarker(line) ==
  \E i \in 1..(Len(line) - 1) :
    /\ line[i] = "/"
    /\ line[i + 1] = "/"
    /\ \A k \in 1..(i - 1) : line[k] \in SpaceChars

\* the text after the marker and the white space that follows it, without
\* the line terminator
TextAfterMarker(line) ==
  LET i == CHOOSE k \in 1..(Len(line) - 1) :
             line[k] = "/" /\ line[k + 1] = "/"
      b == IF i + 2 <= Len(line) /\ line[i + 2] \in {"/", "!"}
           THEN i + 3 ELSE i + 2
      c == SkipWhile(line, b, SpaceChars)
      e == IF c <= Len(line) /\ line[Len(line)] = "\n"
           THEN Len(line) - 1 ELSE Len(line)
  IN  SubSeq(line, c, e)

RuleIds ==
  1..Len(CONVERSION_RULES)

\* the words of s from position i on: the maximal runs of word characters,
\* each with its position
RECURSIVE WordRuns(_, _)
WordRuns(s, i) ==
  IF i > Len(s) THEN {}
  ELSE IF s[i] \in WordChars
       THEN {[at |-> i, text |-> SubSeq(s, i, SkipWhile(s, i, WordChars) - 1)]}
              \union WordRuns(s, SkipWhile(s, i, WordChars))
       ELSE WordRuns(s, i + 1)

\* the next character of s after the word w and any white space is "="
BeforeAssign(s, w) ==
  LET m == SkipWhile(s, w.at + Len(w.text), SpaceChars)
  IN  m <= Len(s) /\ s[m] = "="

\* the rules whose American word is the word w of s (for the license rule:
\* unless an assignment follows)
RulesFor(s, w) ==
  {k \in RuleIds :
     /\ CONVERSION_RULES[k].american = w.text
     /\ CONVERSION_RULES[k].not_before_assign => ~BeforeAssign(s, w)}

\* the rules whose American word occurs in s as a whole word
RulesMatching(s) ==
  UNION {RulesFor(s, w) : w \in WordRuns(s, 1)}

\* one of the 'looks like code' patterns matches after the leftmost //
LooksLikeCode(line) ==
  LET p == Find(line, SLASHES, 1)
  IN  /\ p # 0
      /\ \E i \in (p + 2)..Len(line) :
           \/ KeywordThenName(line, i, <<"l", "e", "t">>, "=")
           \/ CallAt(line, i)
           \/ PathAt(line, i)
           \/ MethodAt(line, i)
           \/ ClosureAt(line, i)

\* C1: a line that does not begin with the comment marker is returned as it
\* is, with no change record, whatever the fence state and whatever
\* American words it holds.
C1_NonCommentLineUnchanged ==
  (stage # "input" /\ ~StartsWithMarker(arg_line)) =>
    (once.line = arg_line /\ once.changes = <<>>)

\* C1's case: code with a trailing comment that holds an American word,
\* outside a fence, has been through fix_line
C1_Witness ==
  /\ stage = "once"
  /\ ~arg_block
  /\ ~StartsWithMarker(arg_line)
  /\ ~HasFence(arg_line)
  /\ ~LooksLikeCode(arg_line)
  /\ Find(arg_line, SLASHES, 1) # 0
  /\ RulesMatching(arg_line) # {}

\* C3: a line that begins with the comment marker and matches one of the
\* 'looks like code' patterns is returned as it is, with no change record.
C3_CodeLikeCommentUnchanged ==
  (stage # "input" /\ StartsWithMarker(arg_line) /\ LooksLikeCode(arg_line)) =>
    (once.line = arg_line /\ once.changes = <<>>)

\* C3's case: a comment outside a fence, without a fence marker, that looks
\* like code and holds an American word in its text
C3_Witness ==
  /\ stage = "once"
  /\ ~arg_block
  /\ StartsWithMarker(arg_line)
  /\ ~HasFence(arg_line)
  /\ LooksLikeCode(arg_line)
  /\ RulesMatching(TextAfterMarker(arg_line)) # {}

----------------------------------------------------------------------------
(* Properties of process_file and main (Spec).                             *)

\* the number of lines among the first n of ls that hold a fence marker
RECURSIVE FenceLines(_, _)
FenceLines(ls, n) ==
  IF n = 0 THEN 0
  ELSE FenceLines(ls, n - 1) + (IF HasFence(ls[n]) THEN 1 ELSE 0)

\* line n of the file being scanned lies after an opening fence marker line
\* and before the next fence marker line
InsideBlock(n) ==
  FenceLines(lines, n - 1) % 2 = 1

\* some line of the file has a record in all_changes
ChangedLines ==
  {all_changes[k].line_num : k \in 1..Len(all_changes)}

\* standard error holds a message of this kind about the file
Reported(error, file) ==
  \E k \in 1..Len(stderr) : stderr[k] = [error |-> error, file |-> file]

\* C8: fix_line applied to the line fix_line returned, in the same fence
\* state, returns that line with no change record; and a run of the tool
\* over a file that an earlier run has converted detects no change and
\* leaves the file as it is.
C8_Idempotent ==
  /\ stage = "twice" => (twice.line = once.line /\ twice.changes = <<>>)
  /\ (converted /\ pc \in {"scan", "returned", "loop", "exit"}) =>
       (all_changes = <<>> /\ total_changes = 0 /\ disk = orig)
  /\ (converted /\ pc = "exit") => exit_code = 0

\* C8's case: the first application rewrote the line
C8_Witness ==
  /\ stage = "twice"
  /\ once.line # arg_line
  /\ once.changes # <<>>

\* a comment line fix_line rewrites by the rules: outside a fence, with no
\* fence marker, not looking like code
Rewritable(line, block) ==
  /\ ~block
  /\ StartsWithMarker(line)
  /\ ~HasFence(line)
  /\ ~LooksLikeCode(line)

\* the change records due for the first n lines of the file: one for every
\* rule matching the content of a rewritable line
RECURSIVE RecordsDue(_)
RecordsDue(n) ==
  IF n = 0 THEN 0
  ELSE RecordsDue(n - 1)
         + (IF Rewritable(lines[n], InsideBlock(n))
            THEN Cardinality(RulesMatching(TextAfterMarker(lines[n])))
            ELSE 0)

C2_FenceSafety ==
  \A n \in 1..Len(new_lines) :
    (HasFence(lines[n]) \/ InsideBlock(n)) =>
      (new_lines[n] = lines[n] /\ n \notin ChangedLines)

\* C2's case: a comment line with American words, inside a fenced block, has
\* been scanned
C2_Witness ==
  \E n \in 1..Len(new_lines) :
    /\ InsideBlock(n)
    /\ lines[n] = LINE_PROSE

\* C9: while a file is scanned, in_code_block is true exactly when an odd
\* number of the lines scanned so far hold a fence marker; so every file
\* starts outside a block, whatever state the file before ended in.
C9_FenceStateIsParity ==
  pc = "scan" =>
    (in_code_block = (FenceLines(lines, Len(new_lines)) % 2 = 1))

\* C9's case: the file before ended inside a block, and in this file a line
\* with two fence markers has flipped the state once
C9_Witness ==
  /\ pc = "scan"
  /\ file_idx = 2
  /\ left_in_block
  /\ Len(new_lines) = 1
  /\ lines[1] = LINE_INLINE
  /\ in_code_block

C5_ExitStatusTellsChangesFound ==
  (pc = "exit" /\ path_kind # "missing") =>
    ((exit_code # 0) <=> (detected > 0))

\* C6: after a failed write the failure is on standard error, the file
\* counts zero changes and its content on disk is what it was before.
C6_FailedWriteLeavesFile ==
  (pc = "returned" /\ Reported("writing", file_idx)) =>
    (num_changes = 0 /\ disk = orig)

\* C7 as stated: the one-file directory whose file is the prose line (and
\* can be read) is reported with 3 changes and the dry run exits with
\* status 1.
C7_ThreeChanges ==
  (pc = "exit" /\ path_kind = "dir" /\ rust_files = 1 /\ dry_run
     /\ orig = <<LINE_PROSE>> /\ ~Reported("reading", 1)) =>
    (num_changes = 3 /\ total_changes = 3 /\ exit_code = 1)

\* C7, amended: that file is reported with 2 changes, optimize to optimise
\* and color to colour (centering is no whole-word match of center), and
\* the dry run exits with status 1.
C7_TwoChanges ==
  (pc = "exit" /\ path_kind = "dir" /\ rust_files = 1 /\ dry_run
     /\ orig = <<LINE_PROSE>> /\ ~Reported("reading", 1)) =>
    /\ num_changes = 2
    /\ files_with_changes = 1
    /\ total_changes = 2
    /\ exit_code = 1
    /\ Len(all_changes) = 2
    /\ all_changes[1].matched = <<"o","p","t","i","m","i","z","e">>
    /\ all_changes[1].british = <<"o","p","t","i","m","i","s","e">>
    /\ all_changes[2].matched = <<"c","o","l","o","r">>
    /\ all_changes[2].british = <<"c","o","l","o","u","r">>

\* C7's case: the dry run over that directory has exited
C7_Witness ==
  /\ pc = "exit"
  /\ path_kind = "dir"
  /\ rust_files = 1
  /\ dry_run
  /\ orig = <<LINE_PROSE>>
  /\ ~Reported("reading", 1)
  /\ exit_code = 1

====
